---- MODULE Spec2Model ----
(***************************************************************************)
(* Model of the VideoScribe processing queue (src/App.tsx) and of the      *)
(* remote transcription client (src/services/geminiService.ts).            *)
(*                                                                         *)
(* React state is modelled as it behaves: a setter enqueues an update,     *)
(* Render applies all queued updates in order and commits the new state,   *)
(* and the passive effect of the committed render runs afterwards          *)
(* (RunEffect).  Timers, file reads and network responses are separate     *)
(* tasks that may be scheduled between those steps.                        *)
(***************************************************************************)
EXTENDS Integers, Sequences, FiniteSets, TLC

\* ---------------------------------------------------------------- bounds
MaxItems == 3        \* queue items ever created (crypto.randomUUID draws)
MaxFiles == 2        \* files handed to one handleStartUpload call
MaxStored == 2       \* Recordings in storage when the application starts
MaxPoints == 2       \* SavedPoints ever created
MaxChats == 2        \* questions put to one Dashboard
MaxEdits == 4        \* changes of the two collections asked for by handlers

\* ------------------------------------------------------------- constants
DefaultRetries == 2            \* processMedia(..., retries = 2)
BackoffMs == 3000              \* setTimeout(r, 3000) in the catch block
SweepMs == 5000                \* setTimeout(..., 5000) in the idle branch

DASHBOARD == "dashboard"
KNOWLEDGE_BASE == "knowledge_base"

Files == { [name |-> "a.mp4", type |-> "video/mp4"],
           [name |-> "b.mp3", type |-> "audio/mp3"] }
ProjectNames == { "P1", "P2" }

NoRecording == [id |-> 0]      \* selectedRecording === null

VARIABLES
  processingQueue,     \* committed useState<QueueItem[]>
  isProcessingGlobal,  \* committed useState(false)
  recordings,          \* committed useState<Recording[]>
  selectedRecording,   \* committed useState<Recording | null>
  activeTab,           \* committed useState<AppTab>
  updates,             \* state updates enqueued by setters, not yet rendered
  effectPending,       \* the committed render still has to run its effect
  timer,               \* the idle-sweep setTimeout: "none" or "armed"
  workers,             \* processQueueItem invocations, by item id
  nextItemId,          \* next crypto.randomUUID() for a QueueItem
  nextRecId,           \* next crypto.randomUUID() for a Recording
  producedBy,          \* history: recording id -> id of the item it came from
  savedPoints,         \* committed useState<SavedPoint[]>
  storage,             \* localStorage: the values of the two keys
  passive,             \* the other effects the committed render has to run
  nextPointId,         \* next crypto.randomUUID() for a SavedPoint
  bootStorage,         \* history: localStorage when the application started
  edits,               \* history: changes of the collections since startup
  dash,                \* committed state of the mounted Dashboard
  chats                \* handleChat invocations of the mounted Dashboard

storeVars == << savedPoints, storage, passive, nextPointId, bootStorage, edits >>
dashVars == << dash, chats >>

vars == << processingQueue, isProcessingGlobal, recordings, selectedRecording,
           activeTab, updates, effectPending, timer, workers, nextItemId,
           nextRecId, producedBy, storeVars, dashVars >>

\* ------------------------------------------------------------ sequences
RECURSIVE SeqsUpTo(_, _)
SeqsUpTo(S, n) ==
  IF n = 0 THEN { << >> }
  ELSE LET shorter == SeqsUpTo(S, n - 1)
       IN shorter \cup { Append(s, x) : s \in { t \in shorter : Len(t) = n - 1 }, x \in S }

Min(S) == CHOOSE x \in S : \A y \in S : x <= y

\* Array.prototype.includes on an error message, word by word
Includes(message, word) == \E i \in 1..Len(message) : message[i] = word

\* ------------------------------------------- remote transcription client
\* What one generateContent call can give: a thrown error with a message, or
\* a response whose text is a sequence of JSON tokens.  Tokens: "{" "}" "["
\* "]" delimit the object and its segments array, "S" is a subject member,
\* "F" a fullText member, "a" and "b" are complete segment objects, "q" is a
\* string literal that was cut off before its closing quote.
Msg500 == << "got", "status", "500" >>
MsgXhr == << "xhr", "error" >>
MsgKey == << "API", "key", "not", "valid" >>
MsgEmpty == << "Empty", "response", "from", "AI", "model" >>
MsgUnterminated == << "Unterminated", "string", "in", "JSON" >>
MsgUnexpectedEnd == << "Unexpected", "end", "of", "JSON", "input" >>
MsgUnexpectedToken == << "Unexpected", "token" >>

SegTokens == { "a", "b" }
SegOf(tok) ==
  IF tok = "a" THEN [timestamp |-> "00:05", speaker |-> "Caller", text |-> "hello"]
  ELSE [timestamp |-> "00:09", speaker |-> "", text |-> "namaste"]

TextGood == << "{", "S", "[", "a", "b", "]", "}" >>
TextNoSubject == << "{", "[", "b", "]", "F", "}" >>
TextCutInArray == << "{", "S", "[", "a" >>
TextCutAfterArray == << "{", "S", "[", "a", "]" >>
TextCutInString == << "{", "S", "[", "a", "q" >>
TextStrayBracket == << "{", "S", "[", "a", "]", "]" >>
TextEmpty == << >>

Responses ==
  { [kind |-> "throw", message |-> m, text |-> << >>] : m \in { Msg500, MsgXhr, MsgKey } }
  \cup
  { [kind |-> "text", message |-> << >>, text |-> t] :
      t \in { TextEmpty, TextGood, TextNoSubject, TextCutInArray,
              TextCutAfterArray, TextCutInString, TextStrayBracket } }

\* JSON.parse over the token alphabet.  A document is
\*   "{" ["S"] "[" segment* "]" ["F"] "}"
\* and anything else is a SyntaxError whose message depends on where the
\* parser stopped.
MissingSubject == ""
Documents ==
  { [subject |-> s, segments |-> g, hasFullText |-> f] :
      s \in { MissingSubject, "Budget call" },
      g \in SeqsUpTo(SegTokens, 2),
      f \in BOOLEAN }

Serialize(doc) ==
  << "{" >> \o (IF doc.subject = MissingSubject THEN << >> ELSE << "S" >>)
           \o << "[" >> \o doc.segments \o << "]" >>
           \o (IF doc.hasFullText THEN << "F" >> ELSE << >>) \o << "}" >>

IsPrefix(s, t) == Len(s) <= Len(t) /\ SubSeq(t, 1, Len(s)) = s

JSONParse(text) ==
  IF \E doc \in Documents : Serialize(doc) = text
  THEN [ok |-> TRUE, data |-> CHOOSE doc \in Documents : Serialize(doc) = text,
        message |-> << >>]
  ELSE [ok |-> FALSE, data |-> CHOOSE doc \in Documents : TRUE,
        message |-> IF Includes(text, "q") THEN MsgUnterminated
                    ELSE IF \E doc \in Documents : IsPrefix(text, Serialize(doc))
                         THEN MsgUnexpectedEnd
                         ELSE MsgUnexpectedToken]

\* variant: always appends both closers
Repair_AlwaysBoth(text) == text \o << "]", "}" >>

\* the repair of lines 80-84: close the array and the object if cut off
Repair(text) ==
  IF text # << >> /\ text[Len(text)] = "}" THEN text
  ELSE IF text # << >> /\ text[Len(text)] = "]" THEN text \o << "}" >>
  ELSE text \o << "]", "}" >>

\* segments.map(s => `[${s.timestamp}] ${s.speaker || 'Speaker'}: ${s.text}`).join('\n')
Line(s) ==
  << "[", s.timestamp, "]", (IF s.speaker = "" THEN "Speaker" ELSE s.speaker), ":", s.text >>

RECURSIVE JoinLines(_)
JoinLines(segs) ==
  IF segs = << >> THEN << >>
  ELSE IF Len(segs) = 1 THEN Line(segs[1])
  ELSE Line(segs[1]) \o << "\n" >> \o JoinLines(Tail(segs))

\* variant: the fullText of the response is passed on (data.fullText || "")
ResultOf_TrustsResponse(data) ==
  LET segments == [ idx \in 1..Len(data.segments) |->
                      [id |-> idx] @@ SegOf(data.segments[idx]) ]
  IN [subject |-> IF data.subject = MissingSubject THEN "Untitled Recording"
                  ELSE data.subject,
      transcript |-> segments,
      fullText |-> IF data.hasFullText THEN << "F" >> ELSE << >>]

\* lines 88-100: the value processMedia returns for parsed data
ResultOf(data) ==
  LET segments == [ idx \in 1..Len(data.segments) |->
                      [id |-> idx] @@ SegOf(data.segments[idx]) ]
  IN [subject |-> IF data.subject = MissingSubject THEN "Untitled Recording"
                  ELSE data.subject,
      transcript |-> segments,
      fullText |-> JoinLines(segments)]

NoResult == [subject |-> "", transcript |-> << >>, fullText |-> << >>]

\* lines 30-100: the try block of one processMedia invocation, given what
\* generateContent produced
TryBody(resp) ==
  IF resp.kind = "throw"
  THEN [ok |-> FALSE, message |-> resp.message, result |-> NoResult]
  ELSE IF resp.text = << >>
  THEN [ok |-> FALSE, message |-> MsgEmpty, result |-> NoResult]
  ELSE LET first == JSONParse(resp.text)
           parsed == IF first.ok THEN first ELSE JSONParse(Repair(resp.text))
       IN IF parsed.ok
          THEN [ok |-> TRUE, message |-> << >>, result |-> ResultOf(parsed.data)]
          ELSE [ok |-> FALSE, message |-> parsed.message, result |-> NoResult]

\* variant: the retry bound is off by one
ShouldRetry_OffByOne(retries, message) ==
  retries >= 0 /\ (Includes(message, "500") \/ Includes(message, "xhr")
                   \/ Includes(message, "Unterminated"))

\* variant: every parse error is retried
ShouldRetry_AlsoUnexpected(retries, message) ==
  retries > 0 /\ (Includes(message, "500") \/ Includes(message, "xhr")
                  \/ Includes(message, "Unterminated")
                  \/ Includes(message, "Unexpected"))

\* variant: every error is retried
ShouldRetry_AnyError(retries, message) == retries > 0

\* line 102: the condition under which the catch block retries
ShouldRetry(retries, message) ==
  retries > 0 /\ (Includes(message, "500") \/ Includes(message, "xhr")
                  \/ Includes(message, "Unterminated"))

\* ------------------------------------------------------ processing queue
HasStatus(q, st) == \E i \in 1..Len(q) : q[i].status = st

\* variant: picks the last pending item
FindPending_Last(q) ==
  IF HasStatus(q, "pending")
  THEN CHOOSE i \in 1..Len(q) :
         q[i].status = "pending" /\ \A j \in 1..Len(q) : q[j].status = "pending" => j <= i
  ELSE 0

\* variant: failed items are picked up again
FindPending_RetriesErrors(q) ==
  IF HasStatus(q, "pending") \/ HasStatus(q, "error")
  THEN Min({ i \in 1..Len(q) : q[i].status \in { "pending", "error" } })
  ELSE 0

\* processingQueue.find(q => q.status === 'pending'): index of the first
\* pending item, 0 when there is none
FindPending(q) ==
  IF HasStatus(q, "pending")
  THEN Min({ i \in 1..Len(q) : q[i].status = "pending" })
  ELSE 0

\* variant: dispatches whenever something is pending
ShouldDispatch_IgnoresProcessing(q) == \E i \in 1..Len(q) : q[i].status = "pending"

\* line 99: the condition under which the effect dispatches the next item
ShouldDispatch(q) == FindPending(q) # 0 /\ ~HasStatus(q, "processing")

\* variant: the idle branch is taken whenever nothing is pending
IsIdle_NothingPending(q) == FindPending(q) = 0

\* line 102: the condition of the idle branch
IsIdle(q) == FindPending(q) = 0 /\ ~HasStatus(q, "processing")

\* variant: the test of the global flag is inverted
ShouldSweep_WhileGlobal(q, global) ==
  (HasStatus(q, "done") \/ HasStatus(q, "error")) /\ global

\* lines 105-106: the condition under which the idle branch arms the sweep
ShouldSweep(q, global) ==
  (HasStatus(q, "done") \/ HasStatus(q, "error")) /\ ~global

\* prev.map(q => q.id === id ? { ...q, status } : q)
SetStatus(q, id, st) ==
  [ i \in 1..Len(q) |-> IF q[i].id = id THEN [q[i] EXCEPT !.status = st] ELSE q[i] ]

\* lines 116-122: files.map(file => ({ id, name, status: 'pending', ... }))
NewItems(files, projectName, firstId) ==
  [ i \in 1..Len(files) |->
      [id |-> firstId + i - 1, name |-> files[i].name, status |-> "pending",
       projectName |-> projectName, file |-> files[i]] ]

\* variant: puts the new items in front
AppendItems_InFront(prev, newItems) == newItems \o prev

\* line 123: prev => [...prev, ...newItems]
AppendItems(prev, newItems) == prev \o newItems

\* One enqueued state update applied to the queue state (the updater
\* functions handed to setProcessingQueue, and the plain value [] of line 108)
ApplyQueueUpdate(q, u) ==
  IF u.op = "append" THEN AppendItems(q, u.items)
  ELSE IF u.op = "status" THEN SetStatus(q, u.id, u.status)
  ELSE IF u.op = "clear" THEN << >>
  ELSE q

\* variant: the id is not compared
UpdateById_All(list, updated) == [ i \in 1..Len(list) |-> updated ]

\* prev.map(x => x.id === updated.id ? updated : x)
UpdateById(list, updated) ==
  [ i \in 1..Len(list) |-> IF list[i].id = updated.id THEN updated ELSE list[i] ]

\* variant: everything up to the id is dropped
DeleteById_Truncates(list, id) ==
  LET After(x) == x.id > id
  IN SelectSeq(list, After)

\* prev.filter(x => x.id !== id)
DeleteById(list, id) ==
  LET Keep(x) == x.id # id
  IN SelectSeq(list, Keep)

\* the updaters handed to setRecordings: line 50 prev => [newRec, ...prev],
\* line 55 (map), line 145 (filter), and the loaded value of line 32
ApplyRecordingsUpdate(r, u) ==
  IF u.op = "addRecording" THEN << u.rec >> \o r
  ELSE IF u.op = "updateRecording" THEN UpdateById(r, u.rec)
  ELSE IF u.op = "deleteRecording" THEN DeleteById(r, u.id)
  ELSE IF u.op = "setRecordings" THEN u.value
  ELSE r

\* the updaters handed to setSavedPoints: lines 133, 137, 141 and line 31
ApplyPointsUpdate(pts, u) ==
  IF u.op = "addSavedPoint" THEN << u.point >> \o pts
  ELSE IF u.op = "updateSavedPoint" THEN UpdateById(pts, u.point)
  ELSE IF u.op = "deleteSavedPoint" THEN DeleteById(pts, u.id)
  ELSE IF u.op = "setSavedPoints" THEN u.value
  ELSE pts

\* Dashboard state: VideoUploader.tsx lines 344-360
DashInit ==
  [activeRecording |-> NoRecording, transcript |-> << >>, fullText |-> << >>,
   chatHistory |-> << >>, userInput |-> "", isChatting |-> FALSE,
   editingSpeakerId |-> 0]

\* the setters of the Dashboard; "dashLoad" is the run of setters of the
\* initialRecording effect (VideoUploader.tsx lines 367-378)
ApplyDashUpdate(d, u) ==
  IF u.op = "dashLoad"
  THEN [d EXCEPT !.activeRecording = u.rec, !.transcript = u.rec.transcript,
                 !.fullText = u.rec.fullText, !.chatHistory = << >>]
  ELSE IF u.op = "dashTranscript" THEN [d EXCEPT !.transcript = u.value]
  ELSE IF u.op = "dashFullText" THEN [d EXCEPT !.fullText = u.value]
  ELSE IF u.op = "dashInput" THEN [d EXCEPT !.userInput = u.value]
  ELSE IF u.op = "dashChatting" THEN [d EXCEPT !.isChatting = u.value]
  ELSE IF u.op = "dashEditing" THEN [d EXCEPT !.editingSpeakerId = u.value]
  ELSE IF u.op = "chatAppend" THEN [d EXCEPT !.chatHistory = Append(@, u.msg)]
  ELSE d

ApplyGlobalUpdate(g, u) == IF u.op = "global" THEN u.value ELSE g
ApplySelectedUpdate(sel, u) == IF u.op = "select" THEN u.rec ELSE sel
ApplyTabUpdate(tab, u) == IF u.op = "tab" THEN u.tab ELSE tab

\* every enqueued update applied in the order the setters were called
QueueAfter(q, us) ==
  LET f[i \in 0..Len(us)] == IF i = 0 THEN q ELSE ApplyQueueUpdate(f[i - 1], us[i])
  IN f[Len(us)]

RecordingsAfter(r, us) ==
  LET f[i \in 0..Len(us)] == IF i = 0 THEN r ELSE ApplyRecordingsUpdate(f[i - 1], us[i])
  IN f[Len(us)]

GlobalAfter(g, us) ==
  LET f[i \in 0..Len(us)] == IF i = 0 THEN g ELSE ApplyGlobalUpdate(f[i - 1], us[i])
  IN f[Len(us)]

SelectedAfter(sel, us) ==
  LET f[i \in 0..Len(us)] == IF i = 0 THEN sel ELSE ApplySelectedUpdate(f[i - 1], us[i])
  IN f[Len(us)]

TabAfter(tab, us) ==
  LET f[i \in 0..Len(us)] == IF i = 0 THEN tab ELSE ApplyTabUpdate(f[i - 1], us[i])
  IN f[Len(us)]

PointsAfter(pts, us) ==
  LET f[i \in 0..Len(us)] == IF i = 0 THEN pts ELSE ApplyPointsUpdate(f[i - 1], us[i])
  IN f[Len(us)]

DashAfter(d, us) ==
  LET f[i \in 0..Len(us)] == IF i = 0 THEN d ELSE ApplyDashUpdate(f[i - 1], us[i])
  IN f[Len(us)]

IsQueueUpdate(u) == u.op \in { "append", "status", "clear" }
IsRecordingsUpdate(u) ==
  u.op \in { "addRecording", "updateRecording", "deleteRecording", "setRecordings" }
IsPointsUpdate(u) ==
  u.op \in { "addSavedPoint", "updateSavedPoint", "deleteSavedPoint", "setSavedPoints" }

\* variant: the persist effect depends on recordings.length
RecordingsChanged_LengthOnly(old, us) ==
  Len(RecordingsAfter(old, us)) # Len(old)

\* the dependency [recordings] of the effect of lines 39-42 changed: every
\* updater handed to setRecordings returns a new array
RecordingsChanged(old, us) == \E i \in 1..Len(us) : IsRecordingsUpdate(us[i])

\* the dependency [savedPoints] of the effect of lines 35-37 changed
PointsChanged(old, us) == \E i \in 1..Len(us) : IsPointsUpdate(us[i])

\* the dependency [initialRecording] of the Dashboard effect changed: every
\* setSelectedRecording call but one that leaves null at null hands in an
\* object that is not the selected one
SelectionChanged(old, us) ==
  /\ \E i \in 1..Len(us) : us[i].op = "select"
  /\ ~(old = NoRecording /\ SelectedAfter(old, us) = NoRecording)

\* ---------------------------------------------------------- localStorage
\* getItem of a key that was never set gives null
Absent == [present |-> FALSE, json |-> << >>]

\* one object as JSON text: its members, name and value
StringifyObject(o) == { << k, o[k] >> : k \in DOMAIN o }
ParseObject(members) ==
  [ k \in { m[1] : m \in members } |->
      (CHOOSE m \in members : m[1] = k)[2] ]

\* JSON.stringify and JSON.parse of a collection
Stringify(list) ==
  [present |-> TRUE, json |-> [ i \in 1..Len(list) |-> StringifyObject(list[i]) ]]
Parse(value) == [ i \in 1..Len(value.json) |-> ParseObject(value.json[i]) ]

PointsKey == "videoscribe_points"
RecordingsKey == "videoscribe_recordings"

\* the state the next render will commit
PointsView == PointsAfter(savedPoints, updates)
SelectedView == SelectedAfter(selectedRecording, updates)
DashView == DashAfter(dash, updates)
QueueView == QueueAfter(processingQueue, updates)
GlobalView == GlobalAfter(isProcessingGlobal, updates)
RecordingsView == RecordingsAfter(recordings, updates)

\* setIsProcessingGlobal(v): React drops an update that would not change the
\* state the next render computes
SetGlobal(us, v) ==
  IF GlobalAfter(isProcessingGlobal, us) = v THEN us
  ELSE Append(us, [op |-> "global", value |-> v])

Init ==
  /\ processingQueue = << >>
  /\ isProcessingGlobal = FALSE
  /\ recordings = << >>
  /\ selectedRecording = NoRecording
  /\ activeTab = DASHBOARD
  /\ updates = << >>
  /\ effectPending = FALSE
  /\ timer = "none"
  /\ workers = << >>
  /\ nextItemId = 1
  /\ nextRecId = 1
  /\ producedBy = << >>
  /\ savedPoints = << >>
  /\ storage = (PointsKey :> Stringify(<< >>)) @@ (RecordingsKey :> Stringify(<< >>))
  /\ passive = {}
  /\ nextPointId = 1
  /\ bootStorage = (PointsKey :> Absent) @@ (RecordingsKey :> Absent)
  /\ edits = 0
  /\ dash = DashInit
  /\ chats = << >>

\* React renders: every enqueued update is applied in order and the result
\* is committed; the effect of lines 97-113 and the other effects are
\* scheduled when one of their dependencies changed identity.  App renders
\* the Dashboard only under the DASHBOARD tab (lines 202-222): a Dashboard
\* that is mounted starts from its initial state and runs its effects, and
\* the setters of one that was unmounted do nothing.
Render ==
  /\ updates # << >>
  /\ ~effectPending
  /\ passive = {}
  /\ processingQueue' = QueueView
  /\ isProcessingGlobal' = GlobalView
  /\ recordings' = RecordingsView
  /\ selectedRecording' = SelectedView
  /\ activeTab' = TabAfter(activeTab, updates)
  /\ savedPoints' = PointsView
  /\ effectPending' = ( (\E i \in 1..Len(updates) : IsQueueUpdate(updates[i]))
                        \/ GlobalView # isProcessingGlobal )
  /\ LET tab == TabAfter(activeTab, updates)
     IN /\ dash' = IF tab = DASHBOARD /\ activeTab = DASHBOARD THEN DashView
                   ELSE DashInit
        /\ chats' = IF tab = activeTab THEN chats ELSE << >>
        /\ passive' =
             (IF PointsChanged(savedPoints, updates) THEN { "persistPoints" } ELSE {})
             \cup (IF RecordingsChanged(recordings, updates)
                   THEN { "persistRecordings" } ELSE {})
             \cup (IF tab = DASHBOARD
                      /\ (activeTab # DASHBOARD
                          \/ SelectionChanged(selectedRecording, updates))
                   THEN { "dashboard" } ELSE {})
  /\ updates' = << >>
  /\ UNCHANGED << timer, workers, nextItemId, nextRecId, producedBy,
                  storage, nextPointId, bootStorage, edits >>

NoItem == [id |-> 0]

\* a processQueueItem invocation up to its first await (lines 61-70): item
\* and qlen are what its closure captured (item, processingQueue.length)
NewWorker(item, qlen) ==
  [pc |-> "reading", item |-> item, qlen |-> qlen, retries |-> 0,
   attempts |-> 0, delays |-> << >>, hist |-> << >>, ok |-> FALSE,
   message |-> << >>, result |-> NoResult, newRec |-> 0]

\* an invocation that has run to its end: its closure is released; what
\* the processMedia call gave and the id of newRec are kept as history
Finished(ok, result, recId) ==
  [NewWorker(NoItem, 0) EXCEPT !.pc = "finished", !.ok = ok,
                               !.result = result, !.newRec = recId]

\* VideoUploader.tsx lines 366-380: the setters the Dashboard effect calls
DashboardEffect ==
  IF "dashboard" \in passive /\ selectedRecording # NoRecording
  THEN << [op |-> "dashLoad", rec |-> selectedRecording] >>
  ELSE << >>

\* variant: the load effect is declared after the persist effects and so
\* reads what they wrote
StorageRead_AfterPersist ==
  [ k \in { PointsKey, RecordingsKey } |->
      IF k = PointsKey /\ "persistPoints" \in passive THEN Stringify(savedPoints)
      ELSE IF k = RecordingsKey /\ "persistRecordings" \in passive
      THEN Stringify(recordings)
      ELSE storage[k] ]

\* lines 28-29: what getItem gives the load effect, which runs before the
\* persist effects of the same commit
StorageRead == storage

\* lines 30-32: the setters the load effect calls
LoadEffect ==
  IF "load" \in passive
  THEN (IF StorageRead[PointsKey].present
        THEN << [op |-> "setSavedPoints", value |-> Parse(StorageRead[PointsKey])] >>
        ELSE << >>)
       \o
       (IF StorageRead[RecordingsKey].present
        THEN << [op |-> "setRecordings", value |-> Parse(StorageRead[RecordingsKey])] >>
        ELSE << >>)
  ELSE << >>

\* lines 35-42: localStorage after the persist effects that are due
PersistEffects ==
  [ k \in { PointsKey, RecordingsKey } |->
      IF k = PointsKey /\ "persistPoints" \in passive THEN Stringify(savedPoints)
      ELSE IF k = RecordingsKey /\ "persistRecordings" \in passive
      THEN Stringify(recordings)
      ELSE storage[k] ]

\* React runs the effects of the committed render in one pass: those of the
\* Dashboard, then those of App in the order of their declaration: load
\* (lines 27-33), persist (lines 35-42) and, lines 97-113, the cleanup of the
\* scheduling effect's previous run (clearTimeout) followed by its body
RunEffect ==
  /\ effectPending \/ passive # {}
  /\ effectPending' = FALSE
  /\ passive' = {}
  /\ storage' = PersistEffects
  /\ LET us == updates \o DashboardEffect \o LoadEffect
     IN IF ~effectPending
        THEN /\ updates' = us
             /\ UNCHANGED << timer, workers >>
        ELSE IF ShouldDispatch(processingQueue)
        THEN LET nextItem == processingQueue[FindPending(processingQueue)]
             IN /\ updates' = Append(SetGlobal(us, TRUE),
                                     [op |-> "status", id |-> nextItem.id,
                                      status |-> "processing"])
                /\ workers' = [ id \in DOMAIN workers \cup { nextItem.id } |->
                                 IF id = nextItem.id
                                 THEN NewWorker(nextItem, Len(processingQueue))
                                 ELSE workers[id] ]
                /\ timer' = "none"
        ELSE IF IsIdle(processingQueue)
        THEN /\ updates' = SetGlobal(us, FALSE)
             /\ timer' = IF ShouldSweep(processingQueue, isProcessingGlobal)
                         THEN "armed" ELSE "none"
             /\ UNCHANGED workers
        ELSE /\ timer' = "none"
             /\ updates' = us
             /\ UNCHANGED workers
  /\ UNCHANGED << processingQueue, isProcessingGlobal, recordings,
                  selectedRecording, activeTab, nextItemId, nextRecId,
                  producedBy, savedPoints, nextPointId, bootStorage, edits,
                  dashVars >>

\* lines 107-109: the sweep timer expires
SweepTimerFires ==
  /\ timer = "armed"
  /\ timer' = "none"
  /\ updates' = Append(updates, [op |-> "clear"])
  /\ UNCHANGED << processingQueue, isProcessingGlobal, recordings,
                  selectedRecording, activeTab, effectPending, workers,
                  nextItemId, nextRecId, producedBy >>
  /\ UNCHANGED << storeVars, dashVars >>

\* lines 115-125
handleStartUpload(files, projectName) ==
  /\ nextItemId + Len(files) - 1 <= MaxItems
  /\ updates' = updates \o
       << [op |-> "append", items |-> NewItems(files, projectName, nextItemId)],
          [op |-> "tab", tab |-> DASHBOARD] >>
  /\ nextItemId' = nextItemId + Len(files)
  /\ UNCHANGED << processingQueue, isProcessingGlobal, recordings,
                  selectedRecording, activeTab, effectPending, timer, workers,
                  nextRecId, producedBy >>
  /\ UNCHANGED << storeVars, dashVars >>

\* ------------------------------------------ processQueueItem, step by step
\* The invocation for item id exists and the render that follows its
\* dispatch has committed: the file read and the network call are started
\* after the render task was scheduled and complete after it has run.
Running(id) ==
  /\ id \in DOMAIN workers
  /\ \A i \in 1..Len(updates) :
       ~(updates[i].op = "status" /\ updates[i].id = id
         /\ updates[i].status = "processing")

\* lines 44-49: the Recording addRecording builds
NewRecording(item, result, id) ==
  [id |-> id, name |-> item.file.name, projectName |-> item.projectName,
   subject |-> result.subject, transcript |-> result.transcript,
   fullText |-> result.fullText, dateCreated |-> "now",
   meetingDate |-> "today", mediaUrl |-> item.file.name]

\* variant: the item is marked done without the handoff to addRecording
OnSuccess_NoHandoff(w, recId) ==
  << [op |-> "status", id |-> w.item.id, status |-> "done"] >>

\* lines 75-90: the updates processQueueItem enqueues once processMedia has
\* returned result
OnSuccess(w, recId) ==
  LET newRec == NewRecording(w.item, w.result, recId)
  IN << [op |-> "addRecording", rec |-> newRec],
        [op |-> "status", id |-> w.item.id, status |-> "done"] >>
     \o (IF w.qlen = 1 THEN << [op |-> "select", rec |-> newRec] >> ELSE << >>)

\* variant: a failed item is put back for another run
OnFailure_Requeues(w) ==
  << [op |-> "status", id |-> w.item.id, status |-> "pending"] >>

\* lines 91-94: the updates processQueueItem enqueues once processMedia threw
OnFailure(w) ==
  << [op |-> "status", id |-> w.item.id, status |-> "error"] >>

\* lines 65-70 settle: the FileReader loads the file (then line 73 calls
\* processMedia with the default retries and the first request goes out),
\* or it fails and the catch of lines 91-94 marks the item
FileReaderSettles(id, loaded) ==
  /\ Running(id)
  /\ workers[id].pc = "reading"
  /\ IF loaded
     THEN /\ workers' = [workers EXCEPT ![id].pc = "request",
                                        ![id].retries = DefaultRetries,
                                        ![id].attempts = 1]
          /\ UNCHANGED updates
     ELSE /\ workers' = [workers EXCEPT ![id] = Finished(FALSE, NoResult, 0)]
          /\ updates' = updates \o OnFailure(workers[id])
  /\ UNCHANGED << processingQueue, isProcessingGlobal, recordings,
                  selectedRecording, activeTab, effectPending, timer,
                  nextItemId, nextRecId, producedBy >>
  /\ UNCHANGED << storeVars, dashVars >>

\* variant: the delay of the earlier revision of the client
CatchBlock_TwoSeconds(w, message) ==
  IF ShouldRetry(w.retries, message)
  THEN [w EXCEPT !.pc = "backoff", !.delays = Append(@, 2000)]
  ELSE [w EXCEPT !.pc = "settled", !.ok = FALSE, !.message = message]

\* variant: the catch block rethrows without retrying
CatchBlock_Rethrows(w, message) ==
  [w EXCEPT !.pc = "settled", !.ok = FALSE, !.message = message]

\* lines 101-108: what the catch block of processMedia does with a failure
CatchBlock(w, message) ==
  IF ShouldRetry(w.retries, message)
  THEN [w EXCEPT !.pc = "backoff", !.delays = Append(@, BackoffMs)]
  ELSE [w EXCEPT !.pc = "settled", !.ok = FALSE, !.message = message]

\* generateContent settles with resp and the try block runs to its end
ModelResponds(id, resp) ==
  /\ Running(id)
  /\ workers[id].pc = "request"
  /\ LET w == [workers[id] EXCEPT !.hist = Append(@, resp)]
         r == TryBody(resp)
     IN workers' = [workers EXCEPT ![id] =
                      IF r.ok
                      THEN [w EXCEPT !.pc = "settled", !.ok = TRUE,
                                     !.result = r.result]
                      ELSE CatchBlock(w, r.message)]
  /\ UNCHANGED << processingQueue, isProcessingGlobal, recordings,
                  selectedRecording, activeTab, updates, effectPending, timer,
                  nextItemId, nextRecId, producedBy >>
  /\ UNCHANGED << storeVars, dashVars >>

\* line 105: the backoff timer expires and processMedia calls itself with
\* retries - 1, which sends the next request
BackoffElapses(id) ==
  /\ Running(id)
  /\ workers[id].pc = "backoff"
  /\ workers' = [workers EXCEPT ![id].pc = "request",
                                ![id].retries = @ - 1,
                                ![id].attempts = @ + 1]
  /\ UNCHANGED << processingQueue, isProcessingGlobal, recordings,
                  selectedRecording, activeTab, updates, effectPending, timer,
                  nextItemId, nextRecId, producedBy >>
  /\ UNCHANGED << storeVars, dashVars >>

\* the await of line 73 resumes processQueueItem; the frame of the
\* processMedia call is gone afterwards
ProcessMediaReturns(id) ==
  /\ Running(id)
  /\ workers[id].pc = "settled"
  /\ LET w == workers[id]
     IN /\ updates' = updates \o (IF w.ok THEN OnSuccess(w, nextRecId)
                                  ELSE OnFailure(w))
        /\ nextRecId' = IF w.ok THEN nextRecId + 1 ELSE nextRecId
        /\ producedBy' = IF w.ok THEN producedBy @@ (nextRecId :> id)
                         ELSE producedBy
        /\ workers' = [workers EXCEPT ![id] =
                         Finished(w.ok, w.result, IF w.ok THEN nextRecId ELSE 0)]
  /\ UNCHANGED << processingQueue, isProcessingGlobal, recordings,
                  selectedRecording, activeTab, effectPending, timer,
                  nextItemId >>
  /\ edits' = (IF workers[id].ok THEN edits + 1 ELSE edits)
  /\ UNCHANGED << savedPoints, storage, passive, nextPointId, bootStorage,
                  dashVars >>

ItemIds == 1..MaxItems

\* the calls of handleStartUpload that are drawn: one file for project P1,
\* or 2..MaxFiles files, alternating b.mp3 and a.mp4, for project P2
FileNamed(name) == CHOOSE file \in Files : file.name = name

Uploads ==
  { [files |-> << FileNamed("a.mp4") >>, projectName |-> "P1"] }
  \cup
  { [files |-> [ i \in 1..n |-> IF i % 2 = 1 THEN FileNamed("b.mp3")
                                              ELSE FileNamed("a.mp4") ],
     projectName |-> "P2"] : n \in 2..MaxFiles }

\* the responses drawn while the whole queue runs: a transient error, a
\* fatal error and two transcripts (CallSpec draws every response)
QueueResponses ==
  { r \in Responses : r.message \in { Msg500, MsgKey }
                      \/ r.text \in { TextGood, TextNoSubject } }

Next ==
  \/ Render
  \/ RunEffect
  \/ SweepTimerFires
  \/ \E u \in Uploads : handleStartUpload(u.files, u.projectName)
  \/ \E id \in ItemIds, loaded \in BOOLEAN : FileReaderSettles(id, loaded)
  \/ \E id \in ItemIds, resp \in QueueResponses : ModelResponds(id, resp)
  \/ \E id \in ItemIds : BackoffElapses(id)
  \/ \E id \in ItemIds : ProcessMediaReturns(id)

Spec == Init /\ [][Next]_vars

\* React always runs a scheduled render and a scheduled effect, and an armed
\* timer that is not cleared expires.  Reads and network calls may hang.
FairSpec ==
  Spec /\ WF_vars(Render) /\ WF_vars(RunEffect) /\ WF_vars(SweepTimerFires)

\* Besides, every file read settles and every request to the model is
\* answered, every backoff timer expires and every processMedia call returns
\* to processQueueItem.
ProgressSpec ==
  /\ FairSpec
  /\ WF_vars(\E id \in ItemIds, loaded \in BOOLEAN : FileReaderSettles(id, loaded))
  /\ WF_vars(\E id \in ItemIds, resp \in QueueResponses : ModelResponds(id, resp))
  /\ WF_vars(\E id \in ItemIds : BackoffElapses(id))
  /\ WF_vars(\E id \in ItemIds : ProcessMediaReturns(id))

\* ----------------------------------- one processMedia call, every response
\* The state in which processQueueItem has just called processMedia for the
\* only item of the queue: the item is committed as 'processing' and the
\* first request is out.
CallInit ==
  \E file \in Files, projectName \in ProjectNames :
    LET item == NewItems(<< file >>, projectName, 1)[1]
    IN /\ processingQueue = SetStatus(<< item >>, 1, "processing")
       /\ isProcessingGlobal = TRUE
       /\ recordings = << >>
       /\ selectedRecording = NoRecording
       /\ activeTab = DASHBOARD
       /\ updates = << >>
       /\ effectPending = FALSE
       /\ timer = "none"
       /\ workers = (1 :> [NewWorker(item, 1) EXCEPT !.pc = "request",
                                                     !.retries = DefaultRetries,
                                                     !.attempts = 1])
       /\ nextItemId = 2
       /\ nextRecId = 1
       /\ producedBy = << >>
       /\ savedPoints = << >>
       /\ storage = (PointsKey :> Stringify(<< >>)) @@ (RecordingsKey :> Stringify(<< >>))
       /\ passive = {}
       /\ nextPointId = 1
       /\ bootStorage = (PointsKey :> Absent) @@ (RecordingsKey :> Absent)
       /\ edits = 0
       /\ dash = DashInit
       /\ chats = << >>

CallNext ==
  \/ \E resp \in Responses : ModelResponds(1, resp)
  \/ BackoffElapses(1)
  \/ ProcessMediaReturns(1)
  \/ Render
  \/ RunEffect
  \/ SweepTimerFires

CallSpec == CallInit /\ [][CallNext]_vars

\* ------------------------------------------------- the knowledge store
\* React renders the updates of a click, key or input event, and runs the
\* effects of that render, before the browser dispatches the next event: an
\* event handler finds nothing enqueued
Rendered == updates = << >> /\ ~effectPending /\ passive = {}

\* App.tsx lines 181, 189: the two navigation buttons
setActiveTab(tab) ==
  /\ Rendered
  /\ tab # activeTab
  /\ updates' = << [op |-> "tab", tab |-> tab] >>
  /\ UNCHANGED << processingQueue, isProcessingGlobal, recordings,
                  selectedRecording, activeTab, effectPending, timer, workers,
                  nextItemId, nextRecId, producedBy, storeVars, dashVars >>

\* App.tsx lines 54-59: the setters updateRecording(updatedRec) calls
updateRecording(updatedRec) ==
  << [op |-> "updateRecording", rec |-> updatedRec] >>
  \o (IF selectedRecording.id = updatedRec.id
      THEN << [op |-> "select", rec |-> updatedRec] >> ELSE << >>)

\* { ...rec, isBookmarked: !rec.isBookmarked }: a Recording that was never
\* bookmarked has no isBookmarked member
Toggled(rec) ==
  IF "isBookmarked" \in DOMAIN rec
  THEN [rec EXCEPT !.isBookmarked = ~@]
  ELSE [ k \in DOMAIN rec \cup { "isBookmarked" } |->
           IF k = "isBookmarked" THEN TRUE ELSE rec[k] ]

\* App.tsx lines 342-347, for a Recording of the rendered list
toggleBookmark(rec) ==
  /\ Rendered
  /\ activeTab = KNOWLEDGE_BASE
  /\ \E i \in 1..Len(recordings) : recordings[i] = rec
  /\ updates' = updateRecording(Toggled(rec))
  /\ edits < MaxEdits
  /\ edits' = edits + 1
  /\ UNCHANGED << processingQueue, isProcessingGlobal, recordings,
                  selectedRecording, activeTab, effectPending, timer, workers,
                  nextItemId, nextRecId, producedBy, savedPoints, storage,
                  passive, nextPointId, bootStorage, dashVars >>

\* App.tsx lines 144-147, called by the delete button of a listed Recording
deleteRecording(id) ==
  /\ Rendered
  /\ activeTab = KNOWLEDGE_BASE
  /\ \E i \in 1..Len(recordings) : recordings[i].id = id
  /\ updates' = << [op |-> "deleteRecording", id |-> id] >>
                \o (IF selectedRecording.id = id
                    THEN << [op |-> "select", rec |-> NoRecording] >>
                    ELSE << >>)
  /\ edits < MaxEdits
  /\ edits' = edits + 1
  /\ UNCHANGED << processingQueue, isProcessingGlobal, recordings,
                  selectedRecording, activeTab, effectPending, timer, workers,
                  nextItemId, nextRecId, producedBy, savedPoints, storage,
                  passive, nextPointId, bootStorage, dashVars >>

\* App.tsx lines 149-152, for a Recording of the rendered list
handleOpenRecording(rec) ==
  /\ Rendered
  /\ activeTab = KNOWLEDGE_BASE
  /\ \E i \in 1..Len(recordings) : recordings[i] = rec
  /\ updates' = << [op |-> "select", rec |-> rec],
                   [op |-> "tab", tab |-> DASHBOARD] >>
  /\ UNCHANGED << processingQueue, isProcessingGlobal, recordings,
                  selectedRecording, activeTab, effectPending, timer, workers,
                  nextItemId, nextRecId, producedBy, storeVars, dashVars >>

\* App.tsx lines 322-339 and 44-52: the manual log form is saved as filled
\* in by default
handleManualAdd ==
  /\ Rendered
  /\ activeTab = KNOWLEDGE_BASE
  /\ nextRecId <= MaxStored + 1
  /\ updates' = << [op |-> "addRecording",
                    rec |-> [id |-> nextRecId, name |-> "Manual Log",
                             projectName |-> "", subject |-> "",
                             meetingDate |-> "today", remarks |-> "",
                             fullText |-> << >>, transcript |-> << >>,
                             attendees |-> << >>, dateCreated |-> "now"]] >>
  /\ nextRecId' = nextRecId + 1
  /\ edits < MaxEdits
  /\ edits' = edits + 1
  /\ UNCHANGED << processingQueue, isProcessingGlobal, recordings,
                  selectedRecording, activeTab, effectPending, timer, workers,
                  nextItemId, producedBy, savedPoints, storage, passive,
                  nextPointId, bootStorage, dashVars >>

\* VideoUploader.tsx lines 652-658 and App.tsx lines 127-134
saveTranscriptSegment(seg) ==
  /\ Rendered
  /\ activeTab = DASHBOARD
  /\ \E i \in 1..Len(dash.transcript) : dash.transcript[i] = seg
  /\ nextPointId <= MaxPoints
  /\ updates' = << [op |-> "addSavedPoint",
                    point |-> [id |-> nextPointId,
                               sourceVideo |-> IF dash.activeRecording = NoRecording
                                               THEN "Unknown Recording"
                                               ELSE dash.activeRecording.name,
                               timestamp |-> seg.timestamp,
                               content |-> << "[", (IF seg.speaker = "" THEN "Speaker"
                                                    ELSE seg.speaker), "]", seg.text >>,
                               dateSaved |-> "now"]] >>
  /\ nextPointId' = nextPointId + 1
  /\ edits < MaxEdits
  /\ edits' = edits + 1
  /\ UNCHANGED << processingQueue, isProcessingGlobal, recordings,
                  selectedRecording, activeTab, effectPending, timer, workers,
                  nextItemId, nextRecId, producedBy, savedPoints, storage,
                  passive, bootStorage, dashVars >>

\* App.tsx lines 315-320 and 136-138: a listed point saved with edited content
handleEditPointSave(point) ==
  /\ Rendered
  /\ activeTab = KNOWLEDGE_BASE
  /\ \E i \in 1..Len(savedPoints) : savedPoints[i] = point
  /\ updates' = << [op |-> "updateSavedPoint",
                    point |-> [point EXCEPT !.content = << "edited" >>]] >>
  /\ edits < MaxEdits
  /\ edits' = edits + 1
  /\ UNCHANGED << processingQueue, isProcessingGlobal, recordings,
                  selectedRecording, activeTab, effectPending, timer, workers,
                  nextItemId, nextRecId, producedBy, savedPoints, storage,
                  passive, nextPointId, bootStorage, dashVars >>

\* App.tsx lines 140-142, called by the delete button of a listed point
deleteSavedPoint(id) ==
  /\ Rendered
  /\ activeTab = KNOWLEDGE_BASE
  /\ \E i \in 1..Len(savedPoints) : savedPoints[i].id = id
  /\ updates' = << [op |-> "deleteSavedPoint", id |-> id] >>
  /\ edits < MaxEdits
  /\ edits' = edits + 1
  /\ UNCHANGED << processingQueue, isProcessingGlobal, recordings,
                  selectedRecording, activeTab, effectPending, timer, workers,
                  nextItemId, nextRecId, producedBy, savedPoints, storage,
                  passive, nextPointId, bootStorage, dashVars >>

\* what the application wrote to storage in earlier sessions: n Recordings,
\* newest first, and possibly a saved point
StoredRecording(k) ==
  NewRecording(NewItems(<< FileNamed(IF k % 2 = 1 THEN "a.mp4" ELSE "b.mp3") >>,
                        "P1", k)[1],
               TryBody([kind |-> "text", message |-> << >>,
                        text |-> IF k % 2 = 1 THEN TextGood ELSE TextNoSubject]).result,
               k)

StoredRecordings(n) == [ i \in 1..n |-> StoredRecording(n + 1 - i) ]

StoredPoint ==
  [id |-> 1, sourceVideo |-> "a.mp4", timestamp |-> "00:05",
   content |-> << "[", "Caller", "]", "hello" >>, dateSaved |-> "then"]

BootStorages ==
  { (PointsKey :> Absent) @@ (RecordingsKey :> Absent) }
  \cup
  { (PointsKey :> Stringify(<< StoredPoint >>))
    @@ (RecordingsKey :> Stringify(StoredRecordings(n))) : n \in 1..MaxStored }

\* The application is started: App and the Dashboard have rendered their
\* initial state and every effect has its first run ahead
StoreInit ==
  /\ storage \in BootStorages
  /\ bootStorage = storage
  /\ processingQueue = << >>
  /\ isProcessingGlobal = FALSE
  /\ recordings = << >>
  /\ selectedRecording = NoRecording
  /\ activeTab = DASHBOARD
  /\ updates = << >>
  /\ effectPending = TRUE
  /\ timer = "none"
  /\ workers = << >>
  /\ nextItemId = 1
  /\ nextRecId = Len(storage[RecordingsKey].json) + 1
  /\ producedBy = << >>
  /\ savedPoints = << >>
  /\ passive = { "load", "persistPoints", "persistRecordings", "dashboard" }
  /\ nextPointId = Len(storage[PointsKey].json) + 1
  /\ edits = 0
  /\ dash = DashInit
  /\ chats = << >>

RecordingIds == 1..(MaxStored + 1)
PointIds == 1..MaxPoints

StoreNext ==
  \/ Render
  \/ RunEffect
  \/ \E tab \in { DASHBOARD, KNOWLEDGE_BASE } : setActiveTab(tab)
  \/ \E i \in 1..Len(recordings) : toggleBookmark(recordings[i])
  \/ \E id \in RecordingIds : deleteRecording(id)
  \/ \E i \in 1..Len(recordings) : handleOpenRecording(recordings[i])
  \/ handleManualAdd
  \/ \E i \in 1..Len(dash.transcript) : saveTranscriptSegment(dash.transcript[i])
  \/ \E i \in 1..Len(savedPoints) : handleEditPointSave(savedPoints[i])
  \/ \E id \in PointIds : deleteSavedPoint(id)

StoreSpec == StoreInit /\ [][StoreNext]_vars

\* ----------------------------------------------------------- the Dashboard
\* String.prototype.trim on the names and questions that are typed
Trim(str) ==
  IF str = " " THEN ""
  ELSE IF str = " why? " THEN "why?"
  ELSE str

NewNames == { " ", " Asha " }
Inputs == { " ", " why? " }

\* `[${s.timestamp}] ${s.speaker}: ${s.text}` joined by '\n': a segment
\* without speaker is printed as 'undefined'
DashLine(seg) ==
  << "[", seg.timestamp, "]",
     (IF seg.speaker = "" THEN "undefined" ELSE seg.speaker), ":", seg.text >>

RECURSIVE JoinDashLines(_)
JoinDashLines(segs) ==
  IF segs = << >> THEN << >>
  ELSE IF Len(segs) = 1 THEN DashLine(segs[1])
  ELSE DashLine(segs[1]) \o << "\n" >> \o JoinDashLines(Tail(segs))

\* variant: only the segment that was edited is renamed
RenameSpeaker_OnlyThat(transcript, segmentId, newName) ==
  [ i \in 1..Len(transcript) |->
      IF transcript[i].id = segmentId
      THEN [transcript[i] EXCEPT !.speaker = newName]
      ELSE transcript[i] ]

\* VideoUploader.tsx lines 410-416: oldName is the speaker of the first
\* segment with id segmentId, undefined when there is none
RenameSpeaker(transcript, segmentId, newName) ==
  LET found == { i \in 1..Len(transcript) : transcript[i].id = segmentId }
      oldName == IF found = {} THEN "" ELSE transcript[Min(found)].speaker
  IN [ i \in 1..Len(transcript) |->
         IF transcript[i].speaker = oldName
         THEN [transcript[i] EXCEPT !.speaker = newName]
         ELSE transcript[i] ]

\* VideoUploader.tsx lines 404-430, called by the name field of a segment
handleRenameSpeaker(segmentId, newName) ==
  /\ Rendered
  /\ edits < MaxEdits
  /\ activeTab = DASHBOARD
  /\ \E i \in 1..Len(dash.transcript) : dash.transcript[i].id = segmentId
  /\ IF Trim(newName) = ""
     THEN /\ updates' = << [op |-> "dashEditing", value |-> 0] >>
          /\ UNCHANGED edits
     ELSE LET updatedTranscript == RenameSpeaker(dash.transcript, segmentId, newName)
              newFullText == JoinDashLines(updatedTranscript)
          IN /\ updates' =
                  << [op |-> "dashTranscript", value |-> updatedTranscript],
                     [op |-> "dashFullText", value |-> newFullText] >>
                  \o (IF dash.activeRecording # NoRecording
                      THEN updateRecording([dash.activeRecording EXCEPT
                                              !.transcript = updatedTranscript,
                                              !.fullText = newFullText])
                      ELSE << >>)
                  \o << [op |-> "dashEditing", value |-> 0] >>
             /\ edits' = (IF dash.activeRecording # NoRecording THEN edits + 1 ELSE edits)
  /\ UNCHANGED << processingQueue, isProcessingGlobal, recordings,
                  selectedRecording, activeTab, effectPending, timer, workers,
                  nextItemId, nextRecId, producedBy, savedPoints, storage,
                  passive, nextPointId, bootStorage, dashVars >>

\* VideoUploader.tsx line 1040: the question field, enabled while no
\* question is in progress and a transcript is shown
typeInput(text) ==
  /\ Rendered
  /\ activeTab = DASHBOARD
  /\ ~dash.isChatting
  /\ dash.activeRecording # NoRecording
  /\ text # dash.userInput
  /\ updates' = << [op |-> "dashInput", value |-> text] >>
  /\ UNCHANGED << processingQueue, isProcessingGlobal, recordings,
                  selectedRecording, activeTab, effectPending, timer, workers,
                  nextItemId, nextRecId, producedBy, storeVars, dashVars >>

Apology == "Sorry, I encountered an error while processing your request."
Fallback == "I'm sorry, I couldn't process that request."

\* geminiService.ts lines 111-141: the request chatWithTranscript sends:
\* the chat is created with the system instruction only, so the turns it
\* carries are none; the history parameter is not used
ChatRequest(query, transcript, history) ==
  [systemInstruction |-> transcript, message |-> query, history |-> << >>]

\* VideoUploader.tsx lines 446-456: handleChat up to its await
handleChat ==
  /\ Rendered
  /\ activeTab = DASHBOARD
  /\ Trim(dash.userInput) # ""
  /\ ~dash.isChatting
  /\ Len(chats) < MaxChats
  /\ LET userMsg == Trim(dash.userInput)
     IN /\ updates' = << [op |-> "dashInput", value |-> ""],
                         [op |-> "chatAppend",
                          msg |-> [role |-> "user", content |-> userMsg]],
                         [op |-> "dashChatting", value |-> TRUE] >>
        /\ chats' = Append(chats,
                           [pc |-> "request", failed |-> FALSE,
                            query |-> userMsg, transcript |-> dash.fullText,
                            history |-> dash.chatHistory,
                            sent |-> << ChatRequest(userMsg, dash.fullText,
                                                    dash.chatHistory) >>])
  /\ UNCHANGED << processingQueue, isProcessingGlobal, recordings,
                  selectedRecording, activeTab, effectPending, timer, workers,
                  nextItemId, nextRecId, producedBy, storeVars, dash >>

\* what sendMessage can give: an error, a text, or no text
ChatOutcomes ==
  { [kind |-> "throw", text |-> ""],
    [kind |-> "text", text |-> "because"],
    [kind |-> "text", text |-> ""] }

\* variant: the failure is answered with a second request
OnChatFailure_Retries(call) ==
  [updates |-> << >>,
   call |-> [call EXCEPT !.sent = Append(@, call.sent[1])]]

\* VideoUploader.tsx lines 458-463: catch and finally of handleChat
OnChatFailure(call) ==
  [updates |-> << [op |-> "chatAppend",
                   msg |-> [role |-> "model", content |-> Apology]],
                  [op |-> "dashChatting", value |-> FALSE] >>,
   call |-> [call EXCEPT !.pc = "returned", !.failed = TRUE]]

\* variant: the answer is appended without the finally block
OnChatAnswer_KeepsFlag(call, text) ==
  [updates |-> << [op |-> "chatAppend",
                   msg |-> [role |-> "model",
                            content |-> IF text = "" THEN Fallback ELSE text]] >>,
   call |-> [call EXCEPT !.pc = "returned"]]

\* geminiService.ts line 143 and VideoUploader.tsx lines 457, 461-463
OnChatAnswer(call, text) ==
  [updates |-> << [op |-> "chatAppend",
                   msg |-> [role |-> "model",
                            content |-> IF text = "" THEN Fallback ELSE text]],
                  [op |-> "dashChatting", value |-> FALSE] >>,
   call |-> [call EXCEPT !.pc = "returned"]]

\* sendMessage of call k settles, after the render that followed handleChat
ChatSettles(k, outcome) ==
  /\ k \in 1..Len(chats)
  /\ chats[k].pc = "request"
  /\ \A i \in 1..Len(updates) :
       ~(updates[i].op = "dashChatting" /\ updates[i].value)
  /\ LET r == IF outcome.kind = "throw" THEN OnChatFailure(chats[k])
              ELSE OnChatAnswer(chats[k], outcome.text)
     IN /\ updates' = updates \o r.updates
        /\ chats' = [chats EXCEPT ![k] = r.call]
  /\ UNCHANGED << processingQueue, isProcessingGlobal, recordings,
                  selectedRecording, activeTab, effectPending, timer, workers,
                  nextItemId, nextRecId, producedBy, storeVars, dash >>

\* the Recordings that are opened: speakers Caller, none, Caller, or none
\* and Caller
OpenedRecordings ==
  { NewRecording(NewItems(<< FileNamed("a.mp4") >>, "P1", 1)[1],
                 ResultOf([subject |-> "Budget call", segments |-> g,
                           hasFullText |-> FALSE]),
                 1) : g \in { << "a", "b", "a" >>, << "b", "a" >> } }

\* A Recording of the store was opened, and the Dashboard has loaded it
DashInit_Opened ==
  \E rec \in OpenedRecordings :
    /\ recordings = << rec >>
    /\ selectedRecording = rec
    /\ dash = ApplyDashUpdate(DashInit, [op |-> "dashLoad", rec |-> rec])
    /\ storage = (PointsKey :> Stringify(<< >>)) @@ (RecordingsKey :> Stringify(<< rec >>))
    /\ bootStorage = storage
    /\ processingQueue = << >>
    /\ isProcessingGlobal = FALSE
    /\ activeTab = DASHBOARD
    /\ updates = << >>
    /\ effectPending = FALSE
    /\ timer = "none"
    /\ workers = << >>
    /\ nextItemId = 1
    /\ nextRecId = 2
    /\ producedBy = << >>
    /\ savedPoints = << >>
    /\ passive = {}
    /\ nextPointId = 1
    /\ edits = 0
    /\ chats = << >>

SegmentIds == 1..3

DashNext ==
  \/ Render
  \/ RunEffect
  \/ \E segmentId \in SegmentIds, newName \in NewNames :
       handleRenameSpeaker(segmentId, newName)
  \/ \E text \in Inputs : typeInput(text)
  \/ handleChat
  \/ \E k \in 1..MaxChats, outcome \in ChatOutcomes : ChatSettles(k, outcome)

DashSpec == DashInit_Opened /\ [][DashNext]_vars

\* ---------------------------------------------------------------- claims
\* status of item id in queue q, "absent" when q holds no such item
StatusOf(q, id) ==
  IF \E i \in 1..Len(q) : q[i].id = id
  THEN q[CHOOSE i \in 1..Len(q) : q[i].id = id].status
  ELSE "absent"

PositionOf(q, id) ==
  IF \E i \in 1..Len(q) : q[i].id = id
  THEN CHOOSE i \in 1..Len(q) : q[i].id = id
  ELSE 0

UploadInputs == SeqsUpTo(Files, MaxFiles) \ { << >> }

\* C1: every committed snapshot of the queue holds at most one item whose
\* status is 'processing'.
C1_AtMostOneProcessing ==
  Cardinality({ i \in 1..Len(processingQueue) :
                  processingQueue[i].status = "processing" }) <= 1

\* an item is processing while an earlier one has settled and a later one waits
C1_Witness ==
  /\ Len(processingQueue) = 3
  /\ processingQueue[1].status \in { "done", "error" }
  /\ processingQueue[2].status = "processing"
  /\ processingQueue[3].status = "pending"

\* C2: whenever a committed item goes from 'pending' to 'processing', no item
\* was 'processing' before that step and no item in front of it is 'pending',
\* before or after the step.
C2_FifoDispatch ==
  [][ \A id \in ItemIds :
        ( StatusOf(processingQueue, id) = "pending"
          /\ StatusOf(processingQueue', id) = "processing" )
        => /\ ~HasStatus(processingQueue, "processing")
           /\ \A j \in 1..(PositionOf(processingQueue, id) - 1) :
                processingQueue[j].status # "pending"
           /\ \A j \in 1..(PositionOf(processingQueue', id) - 1) :
                processingQueue'[j].status # "pending" ]_vars

\* the second item was dispatched after the first had settled, with a third waiting
C2_Witness ==
  /\ Len(processingQueue) = 3
  /\ processingQueue[1].status = "error"
  /\ processingQueue[2].status = "processing"
  /\ processingQueue[3].status = "pending"
  /\ 2 \in DOMAIN workers /\ workers[2].pc = "request"

\* C3: a handleStartUpload(files, projectName) step leaves the queue the next
\* render computes equal to what it was, followed by one new item per file,
\* in the order of files, each 'pending', with the given project name, the
\* file and its name, and an id no earlier item has.
C3_EnqueueAppends ==
  [][ \A files \in UploadInputs, projectName \in ProjectNames :
        handleStartUpload(files, projectName)
        => LET before == QueueView
               after == QueueView'
           IN /\ Len(after) = Len(before) + Len(files)
              /\ SubSeq(after, 1, Len(before)) = before
              /\ \A k \in 1..Len(files) :
                   LET item == after[Len(before) + k]
                   IN /\ item.status = "pending"
                      /\ item.projectName = projectName
                      /\ item.file = files[k]
                      /\ item.name = files[k].name
                      /\ \A j \in 1..(Len(before) + k - 1) : after[j].id # item.id ]_vars

\* two files were enqueued during the sweep delay, behind a settled item
C3_Witness ==
  /\ timer = "armed"
  /\ Len(processingQueue) >= 1
  /\ updates # << >>
  /\ updates[1].op = "append"
  /\ Len(updates[1].items) = 2
  /\ updates[1].items[1].file # updates[1].items[2].file
  /\ Len(QueueView) = Len(processingQueue) + 2

\* C4: an item that becomes 'done' in a render gets, in that same render,
\* exactly one Recording that was not there before, with the item's file name
\* and project name and the subject, transcript and fullText its processMedia
\* call returned; a call that succeeded leaves its item 'done' (if the queue
\* still holds it); and no two Recordings come from the same item.
C4_DoneHandsOffOneRecording ==
  [][ /\ \A id \in ItemIds :
           ( StatusOf(processingQueue, id) \notin { "done", "absent" }
             /\ StatusOf(processingQueue', id) = "done" )
           => LET item == processingQueue[PositionOf(processingQueue, id)]
                  made == { k \in 1..Len(recordings') :
                              producedBy'[recordings'[k].id] = id }
              IN /\ Cardinality(made) = 1
                 /\ id \in DOMAIN workers' /\ workers'[id].pc = "finished"
                 /\ workers'[id].ok
                 /\ \A k \in made :
                      /\ \A j \in 1..Len(recordings) : recordings[j].id # recordings'[k].id
                      /\ recordings'[k].id = workers'[id].newRec
                      /\ recordings'[k].name = item.file.name
                      /\ recordings'[k].projectName = item.projectName
                      /\ recordings'[k].subject = workers'[id].result.subject
                      /\ recordings'[k].transcript = workers'[id].result.transcript
                      /\ recordings'[k].fullText = workers'[id].result.fullText
      /\ \A id \in DOMAIN workers' :
           (workers'[id].pc = "finished" /\ workers'[id].ok)
           => StatusOf(QueueView', id) \in { "done", "absent" }
      /\ \A r1, r2 \in DOMAIN producedBy' :
           producedBy'[r1] = producedBy'[r2] => r1 = r2 ]_vars

\* two items are done and their two Recordings are in the store, newest first
C4_Witness ==
  /\ Len(processingQueue) >= 2
  /\ processingQueue[1].status = "done"
  /\ processingQueue[2].status = "done"
  /\ Len(recordings) = 2
  /\ producedBy[recordings[1].id] = processingQueue[2].id
  /\ producedBy[recordings[2].id] = processingQueue[1].id

\* C5: an item whose file read or processMedia call failed is 'error' in the
\* queue the next render computes (if the queue still holds it), no Recording
\* comes from it, and a committed 'error' item is never committed with another
\* status afterwards.
C5_FailureMarksError ==
  [][ /\ \A id \in DOMAIN workers' :
           (workers'[id].pc = "finished" /\ ~workers'[id].ok)
           => /\ StatusOf(QueueView', id) \in { "error", "absent" }
              /\ \A r \in DOMAIN producedBy' : producedBy'[r] # id
      /\ \A id \in ItemIds :
           StatusOf(processingQueue, id) = "error"
           => StatusOf(processingQueue', id) \in { "error", "absent" } ]_vars

\* the first item failed and stays 'error' while the second one has been dispatched
C5_Witness ==
  /\ Len(processingQueue) >= 2
  /\ processingQueue[1].status = "error"
  /\ processingQueue[2].status \in { "processing", "done" }
  /\ 1 \in DOMAIN workers /\ workers[1].pc = "finished" /\ ~workers[1].ok
  /\ recordings = << >> \/ producedBy[recordings[Len(recordings)].id] # 1

\* the committed queue is settled and no enqueued file waits for a render
Settled ==
  /\ IsIdle(processingQueue)
  /\ HasStatus(processingQueue, "done") \/ HasStatus(processingQueue, "error")
  /\ \A i \in 1..Len(updates) : updates[i].op # "append"

\* C6: from a state where the queue is settled, either a later
\* handleStartUpload draws a new item id or the committed queue becomes empty.
C6_IdleSweep ==
  \A n \in 1..(MaxItems + 1) :
    (Settled /\ nextItemId = n) ~> (processingQueue = << >> \/ nextItemId # n)

\* a queue whose items were done or failed has been swept
C6_Witness ==
  /\ processingQueue = << >>
  /\ updates = << >>
  /\ ~effectPending
  /\ timer = "none"
  /\ Len(recordings) >= 1
  /\ \E id \in DOMAIN workers : workers[id].pc = "finished" /\ ~workers[id].ok

\* files have been handed to handleStartUpload and are not settled yet
UploadWaiting ==
  \/ \E i \in 1..Len(updates) : updates[i].op = "append"
  \/ HasStatus(processingQueue, "pending")

\* C7: once files are enqueued during the sweep delay, the armed sweep timer
\* does not expire (the sweep is cancelled, so the queue is not cleared by
\* it), and a sweep timer is armed only on a committed queue that is idle.
C7_EnqueueCancelsSweep ==
  [][ /\ (timer = "armed" /\ UploadWaiting)
         => ~(timer' = "none" /\ updates' = Append(updates, [op |-> "clear"]))
      /\ (timer # "armed" /\ timer' = "armed") => IsIdle(processingQueue') ]_vars

\* a failed attempt whose error text the catch block classifies as transient
TransientFailure(resp) ==
  LET r == TryBody(resp)
  IN ~r.ok /\ (Includes(r.message, "500") \/ Includes(r.message, "xhr")
               \/ Includes(r.message, "Unterminated"))

\* C8: no processMedia call sends more than 3 requests, and a call whose
\* every attempt failed with a transient-classified error has made exactly 3
\* attempts with 2 backoff delays and has thrown the last attempt's error.
C8_ThreeAttempts ==
  \A id \in DOMAIN workers :
    LET w == workers[id]
    IN /\ w.attempts <= 3
       /\ Len(w.hist) <= 3
       /\ ( w.pc = "settled" /\ w.hist # << >>
            /\ \A k \in 1..Len(w.hist) : TransientFailure(w.hist[k]) )
          => /\ w.attempts = 3
             /\ Len(w.hist) = 3
             /\ Len(w.delays) = 2
             /\ ~w.ok
             /\ w.message = TryBody(w.hist[3]).message

\* a call has thrown after three transient failures of different kinds
C8_Witness ==
  \E id \in DOMAIN workers :
    /\ workers[id].pc = "settled"
    /\ ~workers[id].ok
    /\ workers[id].attempts = 3
    /\ workers[id].retries = 0
    /\ Len(workers[id].hist) = 3
    /\ \A k \in 1..3 : TransientFailure(workers[id].hist[k])
    /\ workers[id].hist[1] # workers[id].hist[3]

\* C9: after a transient failure of the first attempt the call waits one
\* backoff delay and sends a second request; when that one succeeds the call
\* has settled with the second attempt's result after two attempts and that
\* one delay.
C9_RetryThenSuccess ==
  \A id \in DOMAIN workers :
    LET w == workers[id]
    IN /\ (Len(w.hist) = 1 /\ TransientFailure(w.hist[1]))
          => /\ w.pc \in { "backoff", "request" }
             /\ Len(w.delays) = 1
             /\ w.attempts = (IF w.pc = "backoff" THEN 1 ELSE 2)
       /\ ( Len(w.hist) = 2 /\ TransientFailure(w.hist[1])
            /\ TryBody(w.hist[2]).ok )
          => /\ w.pc = "settled"
             /\ w.ok
             /\ w.result = TryBody(w.hist[2]).result
             /\ w.attempts = 2
             /\ Len(w.delays) = 1

\* a call has returned the transcript of its second response
C9_Witness ==
  \E id \in DOMAIN workers :
    /\ workers[id].pc = "settled"
    /\ workers[id].ok
    /\ Len(workers[id].hist) = 2
    /\ workers[id].hist[1].message = Msg500
    /\ workers[id].hist[2].text = TextGood
    /\ workers[id].result.subject = "Budget call"

\* C10: a call whose latest response had an empty text has thrown the
\* empty-response error right after that attempt: no backoff delay and no
\* request follows it, whatever retries remain.
C10_EmptyIsFatal ==
  \A id \in DOMAIN workers :
    LET w == workers[id]
        n == Len(w.hist)
    IN ( n >= 1 /\ w.hist[n].kind = "text" /\ w.hist[n].text = << >> )
       => /\ w.pc = "settled"
          /\ ~w.ok
          /\ w.message = MsgEmpty
          /\ w.attempts = n
          /\ Len(w.delays) = n - 1

\* the first response was empty and the call threw with both retries left
C10_Witness ==
  \E id \in DOMAIN workers :
    /\ workers[id].pc = "settled"
    /\ workers[id].hist = << [kind |-> "text", message |-> << >>, text |-> << >>] >>
    /\ workers[id].retries = DefaultRetries
    /\ workers[id].delays = << >>

\* the text with the closers a cut-off response lacks appended
Closed(text) ==
  IF text[Len(text)] = "}" THEN text
  ELSE IF text[Len(text)] = "]" THEN text \o << "}" >>
  ELSE text \o << "]", "}" >>

Unparsable(text) == text # << >> /\ ~JSONParse(text).ok

IsSegToken(tok) == tok \in SegTokens

\* '[timestamp] speaker: text' for each segment, a missing speaker shown as
\* 'Speaker', the lines separated by a newline
RECURSIVE Rendering(_)
Rendering(toks) ==
  IF toks = << >> THEN << >>
  ELSE LET s == SegOf(toks[1])
           line == << "[", s.timestamp, "]",
                      (IF s.speaker = "" THEN "Speaker" ELSE s.speaker),
                      ":", s.text >>
       IN IF Len(toks) = 1 THEN line
          ELSE line \o << "\n" >> \o Rendering(Tail(toks))

\* C12: the fullText of a call that succeeded is the rendering of the
\* segments of its last response, in the order of the response, whether or
\* not that response has a fullText member; the transcript has the same
\* segments in the same order.
C12_FullTextFromSegments ==
  \A id \in DOMAIN workers :
    LET w == workers[id]
    IN (w.pc = "settled" /\ w.ok)
       => LET toks == SelectSeq(w.hist[Len(w.hist)].text, IsSegToken)
          IN /\ w.result.fullText = Rendering(toks)
             /\ Len(w.result.transcript) = Len(toks)
             /\ \A i \in 1..Len(toks) :
                  /\ w.result.transcript[i].timestamp = SegOf(toks[i]).timestamp
                  /\ w.result.transcript[i].text = SegOf(toks[i]).text
                  /\ w.result.transcript[i].speaker = SegOf(toks[i]).speaker

\* a response with a fullText member and a segment without speaker succeeded
C12_Witness ==
  \E id \in DOMAIN workers :
    /\ workers[id].pc = "settled"
    /\ workers[id].ok
    /\ workers[id].hist[Len(workers[id].hist)].text = TextNoSubject
    /\ workers[id].result.fullText = << "[", "00:09", "]", "Speaker", ":", "namaste" >>

\* C13 as stated: the first backoff of a call is 2 seconds and the second 3.
C13_EscalatingBackoff ==
  \A id \in DOMAIN workers :
    LET d == workers[id].delays
    IN /\ Len(d) >= 1 => d[1] = 2000
       /\ Len(d) >= 2 => (d[2] = 3000 /\ d[2] > d[1])

\* C13 amended: a call backs off at most twice and each backoff is 3 seconds.
C13_FixedBackoff ==
  \A id \in DOMAIN workers :
    LET d == workers[id].delays
    IN Len(d) <= 2 /\ \A k \in 1..Len(d) : d[k] = 3000

\* a call has backed off twice
C13_Witness ==
  \E id \in DOMAIN workers :
    workers[id].delays = << 3000, 3000 >> /\ workers[id].pc = "request"

\* C14 as stated: an item committed as 'error' is committed as 'error' in
\* every later state.
C14_ErrorStaysInQueue ==
  [][ \A id \in ItemIds :
        StatusOf(processingQueue, id) = "error"
        => StatusOf(processingQueue', id) = "error" ]_vars

\* C14 amended: an item committed as 'error' stays 'error' while the queue
\* holds it and its invocation is not started again; it leaves the queue only
\* in a render that applies the idle sweep's clearing of the whole queue.
C14_ErrorUntilSwept ==
  [][ \A id \in ItemIds :
        StatusOf(processingQueue, id) = "error"
        => /\ StatusOf(processingQueue', id) \in { "error", "absent" }
           /\ StatusOf(processingQueue', id) = "absent"
              => /\ \E i \in 1..Len(updates) : updates[i].op = "clear"
                 /\ \A j \in 1..Len(processingQueue') :
                      processingQueue'[j].status = "pending"
           /\ id \in DOMAIN workers /\ workers[id].pc = "finished"
           /\ workers'[id] = workers[id] ]_vars

\* the only item failed and the sweep has removed it
C14_Witness ==
  /\ processingQueue = << >>
  /\ updates = << >>
  /\ timer = "none"
  /\ nextItemId = 2
  /\ 1 \in DOMAIN workers /\ workers[1].pc = "finished" /\ ~workers[1].ok

\* the Recording with the given id in a list, NoRecording when there is none
RecordingOf(list, id) ==
  IF \E i \in 1..Len(list) : list[i].id = id
  THEN list[CHOOSE i \in 1..Len(list) : list[i].id = id]
  ELSE NoRecording

\* C15: a deleteRecording(id) step leaves the list the next render commits
\* without the Recording with that id and with every other Recording, in the
\* order they had; the selection the next render commits is none if the
\* selected Recording had that id and the selected Recording otherwise.
C15_DeleteIsExact ==
  [][ \A id \in RecordingIds :
        deleteRecording(id)
        => LET before == recordings
               after == RecordingsView'
               kept == { i \in 1..Len(before) : before[i].id # id }
               rank(i) == Cardinality({ j \in kept : j <= i })
           IN /\ Len(after) = Cardinality(kept)
              /\ \A i \in kept : after[rank(i)] = before[i]
              /\ \A j \in 1..Len(after) : after[j].id # id
              /\ SelectedView' = IF selectedRecording.id = id THEN NoRecording
                                 ELSE selectedRecording ]_vars

\* a Recording that was not selected was deleted from a list of three while
\* another one was selected: the next render keeps the other two in order
C15_Witness ==
  /\ Len(recordings) = 3
  /\ selectedRecording = recordings[3]
  /\ Len(updates) = 1
  /\ updates[1].op = "deleteRecording"
  /\ updates[1].id = recordings[2].id
  /\ RecordingsView = << recordings[1], recordings[3] >>
  /\ SelectedView = recordings[3]

\* C16: a toggleBookmark(rec) step leaves the list the next render commits
\* equal to the list before except for the Recording with rec's id, which has
\* isBookmarked negated (an absent flag counting as false) and every other
\* member as before; the selection changes only by following that Recording.
C16_ToggleFlipsOnlyFlag ==
  [][ \A n \in 1..(MaxStored + 1) :
        (n <= Len(recordings) /\ toggleBookmark(recordings[n]))
        => LET rec == recordings[n]
               after == RecordingsView'
               was == IF "isBookmarked" \in DOMAIN rec THEN rec.isBookmarked
                      ELSE FALSE
           IN /\ Len(after) = Len(recordings)
              /\ \A i \in 1..Len(recordings) :
                   IF recordings[i].id = rec.id
                   THEN /\ after[i].isBookmarked = ~was
                        /\ DOMAIN after[i] = DOMAIN rec \cup { "isBookmarked" }
                        /\ \A k \in DOMAIN rec \ { "isBookmarked" } :
                             after[i][k] = rec[k]
                   ELSE after[i] = recordings[i]
              /\ SelectedView' \in { selectedRecording, after[n] }
              /\ SelectedView'.id = selectedRecording.id
              /\ savedPoints' = savedPoints /\ PointsView' = savedPoints ]_vars

\* a bookmark that had been set was taken off again, next to a Recording
\* that is still bookmarked
C16_Witness ==
  /\ Len(recordings) >= 2
  /\ "isBookmarked" \in DOMAIN recordings[1] /\ recordings[1].isBookmarked
  /\ "isBookmarked" \in DOMAIN recordings[2] /\ recordings[2].isBookmarked
  /\ Len(updates) >= 1
  /\ updates[1].op = "updateRecording"
  /\ updates[1].rec.id = recordings[2].id
  /\ ~updates[1].rec.isBookmarked
  /\ RecordingsView[1] = recordings[1]

Blank(name) == name \in { "", " " }

\* C17: a handleRenameSpeaker(segmentId, newName) step with a name that is
\* not blank leaves the transcript the next render shows, and the transcript
\* of the opened Recording in the store, with newName as speaker of every
\* segment whose speaker was that of segment segmentId and with the speaker
\* of every other segment, and all timestamps, texts, ids and the order,
\* as before; with a blank name the transcript is as before.
C17_RenameBySpeaker ==
  [][ \A segmentId \in SegmentIds, newName \in NewNames :
        handleRenameSpeaker(segmentId, newName)
        => LET before == dash.transcript
               after == DashView'.transcript
               stored == RecordingOf(RecordingsView', dash.activeRecording.id).transcript
               old == before[CHOOSE i \in 1..Len(before) :
                               before[i].id = segmentId].speaker
           IN IF Blank(newName)
              THEN after = before /\ RecordingsView' = recordings
              ELSE /\ Len(after) = Len(before)
                   /\ stored = after
                   /\ \A i \in 1..Len(before) :
                        /\ after[i].id = before[i].id
                        /\ after[i].timestamp = before[i].timestamp
                        /\ after[i].text = before[i].text
                        /\ after[i].speaker = IF before[i].speaker = old
                                              THEN newName
                                              ELSE before[i].speaker ]_vars

\* the first and third segment had the same speaker and were renamed, the
\* second, which has none, was not
C17_Witness ==
  /\ Len(dash.transcript) = 3
  /\ dash.transcript[1].speaker = "Caller"
  /\ dash.transcript[3].speaker = "Caller"
  /\ updates # << >>
  /\ updates[1].op = "dashTranscript"
  /\ updates[1].value[1].speaker = " Asha "
  /\ updates[1].value[2].speaker = ""
  /\ updates[1].value[3].speaker = " Asha "

\* C18: whenever the persist effect of a collection has run for the
\* committed render, the value under that collection's key is the
\* serialization of the whole committed collection, and a render that applied
\* an add, an update or a delete to a collection has that effect to run.
C18_StorageMirrorsCollections ==
  /\ "persistRecordings" \notin passive
     => storage[RecordingsKey] = Stringify(recordings)
  /\ "persistPoints" \notin passive
     => storage[PointsKey] = Stringify(savedPoints)

\* an add, an update by id and a delete have been persisted: storage holds
\* a Recording added by hand and bookmarked, and an edited point, after a
\* stored Recording was deleted
C18_Witness ==
  /\ Rendered
  /\ edits = 4
  /\ Len(recordings) >= 1
  /\ recordings[1].name = "Manual Log"
  /\ "isBookmarked" \in DOMAIN recordings[1]
  /\ Len(recordings) < Len(bootStorage[RecordingsKey].json) + 1
  /\ Len(savedPoints) >= 1
  /\ savedPoints[1].content = << "edited" >>
  /\ storage[RecordingsKey] = Stringify(recordings)

\* the startup effects have run, the loaded collections are rendered and
\* persisted, and no handler has changed a collection since
StartupDone == Rendered /\ edits = 0

\* C19: when both keys held a value at startup, then once startup is done
\* both collections in memory are what those values parse to and both keys
\* hold the values they held at startup.
C19_StartupRoundTrip ==
  ( StartupDone /\ bootStorage[RecordingsKey].present
    /\ bootStorage[PointsKey].present )
  => /\ storage = bootStorage
     /\ recordings = Parse(bootStorage[RecordingsKey])
     /\ savedPoints = Parse(bootStorage[PointsKey])
     /\ Len(recordings) = Len(bootStorage[RecordingsKey].json)
     /\ Len(savedPoints) = Len(bootStorage[PointsKey].json)

\* startup is done with two stored Recordings and a stored point loaded
C19_Witness ==
  /\ StartupDone
  /\ Len(bootStorage[RecordingsKey].json) = 2
  /\ Len(recordings) = 2
  /\ recordings[1].id = 2
  /\ savedPoints = << StoredPoint >>
  /\ storage[RecordingsKey].json # << >>

\* C20: a ChatSettles step in which sendMessage throws leaves the chat
\* history the next render shows longer by exactly one message, of role
\* 'model' with the apology as content; leaves the in-progress flag of the
\* next render false; sends no further request; and ends the invocation by
\* returning.
C20_ChatFailureApologizes ==
  [][ \A k \in 1..MaxChats :
        ChatSettles(k, [kind |-> "throw", text |-> ""])
        => /\ DashView'.chatHistory =
                Append(DashView.chatHistory,
                       [role |-> "model", content |-> Apology])
           /\ ~DashView'.isChatting
           /\ Len(chats') = Len(chats)
           /\ \A j \in 1..Len(chats) : Len(chats'[j].sent) = Len(chats[j].sent)
           /\ Len(chats'[k].sent) = 1
           /\ chats'[k].pc = "returned" ]_vars

\* a question failed and the render shows it followed by the apology, the
\* in-progress flag off
C20_Witness ==
  /\ Rendered
  /\ Len(chats) >= 1
  /\ chats[1].failed
  /\ chats[1].pc = "returned"
  /\ ~dash.isChatting
  /\ Len(dash.chatHistory) = 2
  /\ dash.chatHistory[1].role = "user"
  /\ dash.chatHistory[2] = [role |-> "model", content |-> Apology]

\* C21: every request a handleChat invocation has sent carries the query,
\* the transcript full text and the turn history that handleChat handed to
\* chatWithTranscript.
C21_RequestCarriesHistory ==
  \A k \in 1..Len(chats) :
    \A n \in 1..Len(chats[k].sent) :
      /\ chats[k].sent[n].message = chats[k].query
      /\ chats[k].sent[n].systemInstruction = chats[k].transcript
      /\ chats[k].sent[n].history = chats[k].history

\* C22: every item that was enqueued and whose processQueueItem invocation
\* has not run to its end ('done' or 'error') is in the queue the next
\* render commits.
C22_SweepKeepsUnfinished ==
  \A id \in 1..(nextItemId - 1) :
    StatusOf(QueueView, id) = "absent"
    => (id \in DOMAIN workers /\ workers[id].pc = "finished")

\* C23: every backoff of a call followed an attempt that failed with an
\* error whose text contains '500', 'xhr' or 'Unterminated', made while
\* retries remained; and a call whose latest attempt failed with a text that
\* contains none of them has thrown that error right after the attempt, with
\* no backoff and no request after it (after the first attempt: one attempt,
\* no delay at all).
C23_RetryOnlyOnPattern ==
  \A id \in DOMAIN workers :
    LET w == workers[id]
        n == Len(w.hist)
    IN /\ Len(w.delays) <= n
       /\ \A k \in 1..Len(w.delays) :
            TransientFailure(w.hist[k]) /\ k <= DefaultRetries
       /\ ( n >= 1 /\ ~TryBody(w.hist[n]).ok /\ ~TransientFailure(w.hist[n]) )
          => /\ w.pc = "settled"
             /\ ~w.ok
             /\ w.message = TryBody(w.hist[n]).message
             /\ w.attempts = n
             /\ Len(w.delays) = n - 1
             /\ w.retries = DefaultRetries - (n - 1)

\* the first attempt failed with an invalid API key and the call threw with
\* both retries left
C23_Witness ==
  \E id \in DOMAIN workers :
    /\ workers[id].pc = "settled"
    /\ Len(workers[id].hist) = 1
    /\ workers[id].hist[1].kind = "throw"
    /\ workers[id].message = MsgKey
    /\ workers[id].attempts = 1
    /\ workers[id].delays = << >>

\* C24: from one committed queue to the next the status of an item stays as
\* it is or goes from 'pending' to 'processing', from 'processing' to 'done'
\* or from 'processing' to 'error'; an item enters the queue as 'pending',
\* and an item that is 'processing' is not removed.
C24_StatusLifecycle ==
  [][ \A id \in ItemIds :
        LET old == StatusOf(processingQueue, id)
            new == StatusOf(processingQueue', id)
        IN \/ new = old
           \/ old = "absent" /\ new = "pending"
           \/ old = "pending" /\ new = "processing"
           \/ old = "processing" /\ new \in { "done", "error" }
           \/ old \in { "pending", "done", "error" } /\ new = "absent" ]_vars

\* three items: the first went through 'processing' to 'done', the second
\* to 'error', the third is 'processing'
C24_Witness ==
  /\ Len(processingQueue) = 3
  /\ processingQueue[1].status = "done"
  /\ processingQueue[2].status = "error"
  /\ processingQueue[3].status = "processing"

\* C25: every item that was enqueued is eventually run to its end by
\* processQueueItem, which marks it 'done' or 'error'.
C25_Progress ==
  \A id \in ItemIds :
    (id < nextItemId) ~> (id \in DOMAIN workers /\ workers[id].pc = "finished")

\* C26: a handleRenameSpeaker(segmentId, newName) step with a name that is
\* not blank leaves the fullText the next render shows, and the fullText of
\* the opened Recording in the store, equal to processMedia's derivation for
\* the updated segments: one '[timestamp] speaker: text' line per segment,
\* joined by newlines, with 'Speaker' for a segment that has no speaker.
C26_RenameFullText ==
  [][ \A segmentId \in SegmentIds, newName \in NewNames :
        (handleRenameSpeaker(segmentId, newName) /\ ~Blank(newName))
        => /\ DashView'.fullText = JoinLines(DashView'.transcript)
           /\ RecordingOf(RecordingsView', dash.activeRecording.id).fullText
                = JoinLines(DashView'.transcript) ]_vars

\* C27: in a Dashboard session whose edits are speaker renames, no step (the
\* rename, the render that propagates it through updateRecording and the
\* selected recording, the effects that render triggers) removes or changes
\* a turn of the chat history the next render shows: the turns accumulated
\* so far stay, in order, at the front of the history.
C27_EditKeepsChat ==
  [][ /\ Len(DashView'.chatHistory) >= Len(DashView.chatHistory)
      /\ \A i \in 1..Len(DashView.chatHistory) :
           DashView'.chatHistory[i] = DashView.chatHistory[i] ]_vars

\* C28: a step in which processQueueItem completes item id successfully
\* leaves the Recording it added as the selection the next render shows
\* exactly when item id is the only item of the queue at that moment (the
\* queue as the updates enqueued so far leave it); in every other case the
\* selection is as before.
C28_AutoSelect ==
  [][ \A id \in ItemIds :
        (ProcessMediaReturns(id) /\ workers[id].ok)
        => IF Len(QueueView) = 1 /\ QueueView[1].id = id
           THEN SelectedView'.id = workers'[id].newRec
           ELSE SelectedView' = SelectedView ]_vars

\* the handleChat invocations whose request has not settled
Outstanding == { k \in 1..Len(chats) : chats[k].pc = "request" }

C30_ProcessingImpliesGlobal ==
  HasStatus(processingQueue, "processing") => isProcessingGlobal

\* the second item of the queue is processing after the first has settled,
\* and the indicator is on
C30_Witness ==
  /\ Len(processingQueue) >= 2
  /\ processingQueue[1].status \in { "done", "error" }
  /\ processingQueue[2].status = "processing"
  /\ isProcessingGlobal

====
